---- MODULE Spec2Model ----
(***************************************************************************)
(* journal-alerts: the rule matcher (src/src/matcher.rs), the journal      *)
(* processor with its heartbeat monitoring thread                          *)
(* (src/src/processor/core.rs) and the Slack notifier with duplicate       *)
(* suppression (src/src/slack.rs).                                         *)
(*                                                                         *)
(* Time is counted in whole model seconds.  Log lines, patterns and        *)
(* prefixes are sequences of one-character strings; a pattern is a literal *)
(* regular expression, so Regex::is_match is an unanchored substring       *)
(* search.  Rule lists are 1-based sequences here; the code's 0-based rule *)
(* index i is position i + 1.                                              *)
(***************************************************************************)
EXTENDS Integers, Sequences, FiniteSets, TLC

\* ------------------------------------------------------------------ bounds
\* The clock stops at MaxTime.
MaxTime == 6
\* The journal yields at most MaxLines lines.
MaxLines == 3
\* No producer sends once the channel has carried MaxChan messages.
MaxChan == 4
\* Longest rule list given to a stand-alone Matcher.
MaxRules == 2
\* ----------------------------------------------------------- configuration
\* Seconds a suppression entry is kept by the retain() of Slack::start
\* (3600 in the code, scaled to model seconds).
SuppressionWindow == 2
\* Config.heartbeat_interval, scaled to model seconds.
HeartbeatInterval == 1

\* The lines the journal may yield.
Lines == { <<"a", "b">>, <<"a">>, <<"b", "c">>, <<"c">> }

\* Config.alerts: both rules match the line "ab".
AlertRules ==
    << [pattern |-> <<"a", "b">>, prefix |-> <<"E", ":">>],
       [pattern |-> <<"a">>, prefix |-> <<"W", ":">>] >>

\* Config.heartbeats: both rules match the line "bc".
HeartbeatRules ==
    << [pattern |-> <<"b", "c">>, prefix |-> <<"H">>, tolerance |-> 1],
       [pattern |-> <<"b">>, prefix |-> <<"K">>, tolerance |-> 2] >>

\* The shards of the heartbeat_updates DashMap that its keys can fall into.
Shards == {"s0", "s1"}

\* The keys of heartbeat_updates: the 0-based heartbeat rule indices.
HbIdx == 0..(Len(HeartbeatRules) - 1)

NoIdx == -1

VARIABLES
    m_patterns,         \* Matcher.patterns of a stand-alone Matcher
    m_line,             \* the line given to it
    m_result,           \* what find_match returned for it
    now,                \* Instant::now()
    heartbeat_updates,  \* JournalProcessor.heartbeat_updates
    heartbeat_misses,   \* JournalProcessor.heartbeat_misses
    shard_of,           \* the shard of heartbeat_updates holding each key
    chan,               \* every message the flume channel has accepted
    rx_head,            \* how many of them the receiver has taken
    rx_open,            \* the Receiver has not been dropped
    tx_open,            \* some Sender has not been dropped
    loop_pc,            \* the journal loop: "off", "read", "blocked", "ok", "err"
    message,            \* the line it read last
    lines_read,         \* how many lines it has read
    scan_pc,            \* the heartbeat thread: "off", "sleep", "scan", "deadlock"
    scan_now,           \* its `now`, taken at the start of a scan
    todo,               \* keys its iterator has not yet yielded
    scan_cur,           \* the key whose entry it holds while stuck
    wake_at,            \* when its sleep ends
    slack_pc,           \* the notifier: "off", "recv", "done"
    repeats,            \* Slack.repeats
    url_empty,          \* Slack.webhook_url.is_empty()
    posts,              \* the requests made to the webhook, with outcomes
    ev                  \* the last record the heartbeat thread or the
                        \* notifier has logged

vars == << m_patterns, m_line, m_result, now, heartbeat_updates,
           heartbeat_misses, shard_of, chan, rx_head, rx_open, tx_open,
           loop_pc, message, lines_read, scan_pc, scan_now, todo, scan_cur,
           wake_at, slack_pc, repeats, url_empty, posts, ev >>

matcherVars == << m_patterns, m_line, m_result >>
trackerVars == << heartbeat_updates, heartbeat_misses >>
loopVars == << loop_pc, message, lines_read >>
scanVars == << scan_pc, scan_now, todo, scan_cur, wake_at >>
slackVars == << rx_head, slack_pc, repeats, url_empty, posts >>

\* ------------------------------------------------------------------ Matcher
\* Regex::is_match for a literal pattern: the pattern occurs in the line.
is_match(re, line) ==
    \E s \in 0..(Len(line) - Len(re)) : SubSeq(line, s + 1, s + Len(re)) = re

\* Matcher::new: each pattern paired with its 0-based index.
Matcher_new(patterns) ==
    [k \in 1..Len(patterns) |-> [i |-> k - 1, re |-> patterns[k]]]

None == [some |-> FALSE, i |-> NoIdx, line |-> <<>>]

Some(i, line) == [some |-> TRUE, i |-> i, line |-> line]

RECURSIVE find_from(_, _, _)
find_from(patterns, line, k) ==
    IF k > Len(patterns) THEN None
    ELSE IF is_match(patterns[k].re, line) THEN Some(patterns[k].i, line)
    ELSE find_from(patterns, line, k + 1)

RECURSIVE find_last_from(_, _, _)
find_last_from(patterns, line, k) ==
    IF k < 1 THEN None
    ELSE IF is_match(patterns[k].re, line) THEN Some(patterns[k].i, line)
    ELSE find_last_from(patterns, line, k - 1)

\* A matcher that keeps searching and returns the last matching rule.
find_match_last(patterns, line) == find_last_from(patterns, line, Len(patterns))

\* Matcher::find_match: the first pattern, in list order, that matches.
find_match(patterns, line) == find_from(patterns, line, 1)

matcher_alerts == Matcher_new([k \in 1..Len(AlertRules) |-> AlertRules[k].pattern])

matcher_heartbeats ==
    Matcher_new([k \in 1..Len(HeartbeatRules) |-> HeartbeatRules[k].pattern])

\* ----------------------------------------------------------------- messages
\* An alert text that leaves the rule's prefix out.
format_alert_bare(prefix, msg) ==
    [kind |-> "alert", text |-> msg, pattern |-> <<>>, secs |-> 0]

\* format!("{}{}", prefix, msg): the prefix followed by the line.
format_alert(prefix, msg) ==
    [kind |-> "alert", text |-> prefix \o msg, pattern |-> <<>>, secs |-> 0]

\* format!("{} Heartbeat missed for pattern '{}'. Last seen {:?} ago.", ..)
format_missed(prefix, msg, elapsed) ==
    [kind |-> "missed", text |-> prefix, pattern |-> msg, secs |-> elapsed]

\* format!("Heartbeat recovered in {}s for pattern '{}'.", secs, pattern)
format_recovered(secs, pattern) ==
    [kind |-> "recovered", text |-> <<>>, pattern |-> pattern, secs |-> secs]

\* Instant::saturating_duration_since
saturating_duration_since(later, earlier) ==
    IF later >= earlier THEN later - earlier ELSE 0

\* flume Sender::send: the message is queued unless the receiver is gone.
send(queue, open, msg) == IF open THEN Append(queue, msg) ELSE queue

NoEv == [op |-> "none", i |-> NoIdx, arm |-> "none", n |-> 0]

\* ---------------------------------------------------------- initial states
\* JournalProcessor::new: every heartbeat starts as seen now, with the
\* rule's pattern as its message; no miss is recorded.
new_heartbeat_updates(t) ==
    [i \in HbIdx |-> [last_seen |-> t, msg |-> HeartbeatRules[i + 1].pattern]]

\* A key that heartbeat_misses does not hold.
Vacant == [present |-> FALSE, missed_at |-> 0, count |-> 0]

\* Nothing has run yet.
InitIdle ==
    /\ now = 0
    /\ heartbeat_updates = new_heartbeat_updates(0)
    /\ heartbeat_misses = [i \in HbIdx |-> Vacant]
    /\ chan = << >>
    /\ rx_head = 0
    /\ rx_open = TRUE
    /\ tx_open = TRUE
    /\ message = << >>
    /\ lines_read = 0
    /\ scan_now = 0
    /\ todo = {}
    /\ scan_cur = NoIdx
    /\ wake_at = 0
    /\ repeats = << >>
    /\ posts = << >>
    /\ ev = NoEv

\* JournalProcessor::start has been called: the journal loop and the
\* heartbeat thread run.  The keys of heartbeat_updates are hashed with a
\* RandomState, so any assignment of keys to shards can occur.
Init ==
    /\ InitIdle
    /\ loop_pc = "read"
    /\ scan_pc = "sleep"
    /\ slack_pc = "off"
    /\ shard_of \in [HbIdx -> Shards]
    /\ url_empty = FALSE
    /\ m_patterns = << >>
    /\ m_line = << >>
    /\ m_result = None

\* --------------------------------------------------------- the journal loop
\* DashMap::insert waits for the write lock of the key's shard; the stuck
\* heartbeat thread keeps the read lock of the shard its iterator is in.
touch_blocked(i) ==
    scan_pc = "deadlock" /\ shard_of[i] = shard_of[scan_cur]

\* A touch that marks every heartbeat as seen.
touch_all(updates, i, t, msg) ==
    [j \in DOMAIN updates |-> [last_seen |-> t, msg |-> msg]]

\* heartbeat_updates.insert(i, (Instant::now(), msg))
touch(updates, i, t, msg) ==
    [updates EXCEPT ![i] = [last_seen |-> t, msg |-> msg]]

\* A journal loop that logs a failed send and carries on, as the heartbeat
\* thread does.
after_send_ignored(ok) == "read"

\* `tx.send(msg.clone()).context("tx.send() failed")?`: an Err leaves start.
after_send(ok) == IF ok THEN "read" ELSE "err"

\* One iteration of `while let Ok(Some(message)) = lines.next_line().await`.
ReadLine(line) ==
    LET a == find_match(matcher_alerts, line)
        h == find_match(matcher_heartbeats, line)
        alert == format_alert(AlertRules[a.i + 1].prefix, a.line)
        sent == IF a.some THEN after_send(rx_open) ELSE "read"
    IN  /\ loop_pc = "read"
        /\ lines_read < MaxLines
        /\ a.some => Len(chan) < MaxChan
        /\ message' = line
        /\ lines_read' = lines_read + 1
        /\ chan' = IF a.some THEN send(chan, rx_open, alert) ELSE chan
        /\ IF sent = "err"
           THEN \* the heartbeat part of the body is not reached
                /\ loop_pc' = "err"
                /\ heartbeat_updates' = heartbeat_updates
           ELSE IF h.some /\ touch_blocked(h.i)
           THEN /\ loop_pc' = "blocked"
                /\ heartbeat_updates' = heartbeat_updates
           ELSE /\ loop_pc' = "read"
                /\ heartbeat_updates' =
                     IF h.some THEN touch(heartbeat_updates, h.i, now, h.line)
                     ELSE heartbeat_updates
        /\ UNCHANGED << matcherVars, now, heartbeat_misses, shard_of, rx_open,
                        tx_open, scanVars, slackVars, ev >>

\* lines.next_line() yields Ok(None) or Err: the loop ends and start
\* returns Ok(()).
SourceEnd ==
    /\ loop_pc = "read"
    /\ loop_pc' = "ok"
    /\ UNCHANGED << matcherVars, now, trackerVars, shard_of, chan, rx_open,
                    tx_open, message, lines_read, scanVars, slackVars, ev >>

\* The Receiver is dropped: the task that runs the notifier has ended.
RxDrop ==
    /\ rx_open
    /\ rx_open' = FALSE
    /\ UNCHANGED << matcherVars, now, trackerVars, shard_of, chan, tx_open,
                    loopVars, scanVars, slackVars, ev >>

\* ------------------------------------------------------ the heartbeat thread
\* An overdue test that counts a heartbeat at its tolerance as missed.
overdue_ge(t, last_seen, tolerance) ==
    saturating_duration_since(t, last_seen) >= tolerance

\* `now.saturating_duration_since(*last_seen) > tolerance`
overdue(t, last_seen, tolerance) ==
    saturating_duration_since(t, last_seen) > tolerance

\* An or_insert whose new record counts as already notified.
or_insert_notified(misses, i, t) ==
    IF misses[i].present THEN misses
    ELSE [misses EXCEPT ![i] = [present |-> TRUE, missed_at |-> t, count |-> 1]]

\* heartbeat_misses.entry(i).or_insert((now, 0))
or_insert(misses, i, t) ==
    IF misses[i].present THEN misses
    ELSE [misses EXCEPT ![i] = [present |-> TRUE, missed_at |-> t, count |-> 0]]

\* A match that alerts on every scan that finds the heartbeat overdue.
arm_level(is_overdue, count) ==
    IF is_overdue THEN "missed"
    ELSE IF count > 0 THEN "recovered"
    ELSE "quiet"

\* The arm of `match (msg, *missed_count)` taken.
arm_of(is_overdue, count) ==
    IF is_overdue /\ count = 0 THEN "missed"
    ELSE IF ~is_overdue /\ count > 0 THEN "recovered"
    ELSE "quiet"

\* `*missed_at = now; *missed_count += 1;`
mark_missed(misses, i, t) ==
    [misses EXCEPT ![i] = [present |-> TRUE, missed_at |-> t,
                           count |-> misses[i].count + 1]]

\* A recovery time with the two instants the wrong way round.
recovery_time_swapped(t, missed_at) ==
    saturating_duration_since(missed_at, t)

\* `let recovery_time = now.saturating_duration_since(*missed_at)`
recovery_time(t, missed_at) ==
    saturating_duration_since(t, missed_at)

\* `let now = std::time::Instant::now(); for entry in heartbeat_updates.iter()`
ScanBegin ==
    /\ scan_pc = "sleep"
    /\ now >= wake_at
    /\ scan_pc' = "scan"
    /\ scan_now' = now
    /\ todo' = DOMAIN heartbeat_updates
    /\ UNCHANGED << matcherVars, now, trackerVars, shard_of, chan, rx_open,
                    tx_open, loopVars, scan_cur, wake_at, slackVars, ev >>

\* The body of the for loop for the entry of key i.  In the recovery arm the
\* thread calls heartbeat_misses.remove(i) while `entry`, the RefMut that
\* entry(i).or_insert(..) returned, is still alive: remove waits for the write
\* lock of the shard that this same thread holds, and never returns.
ScanEntry(i) ==
    LET last_seen == heartbeat_updates[i].last_seen
        msg == heartbeat_updates[i].msg
        rule == HeartbeatRules[i + 1]
        is_overdue == overdue(scan_now, last_seen, rule.tolerance)
        entry == or_insert(heartbeat_misses, i, scan_now)
        arm == arm_of(is_overdue, entry[i].count)
        missed == format_missed(rule.prefix, msg,
                                saturating_duration_since(now, last_seen))
        recovered ==
            format_recovered(recovery_time(scan_now, entry[i].missed_at),
                             rule.pattern)
    IN  /\ scan_pc = "scan"
        /\ i \in todo
        /\ arm # "quiet" => Len(chan) < MaxChan
        /\ heartbeat_misses' =
             IF arm = "missed" THEN mark_missed(entry, i, scan_now) ELSE entry
        /\ chan' = IF arm = "missed" THEN send(chan, rx_open, missed)
                   ELSE IF arm = "recovered" THEN send(chan, rx_open, recovered)
                   ELSE chan
        /\ IF arm = "recovered"
           THEN /\ scan_pc' = "deadlock"
                /\ scan_cur' = i
                /\ todo' = todo
           ELSE /\ scan_pc' = "scan"
                /\ scan_cur' = scan_cur
                /\ todo' = todo \ {i}
        /\ ev' = [op |-> "scan_entry", i |-> i, arm |-> arm,
                  n |-> saturating_duration_since(scan_now, last_seen)]
        /\ UNCHANGED << matcherVars, now, heartbeat_updates, shard_of,
                        rx_open, tx_open, loopVars, scan_now, wake_at,
                        slackVars >>

\* `std::thread::sleep(Duration::from_secs(heartbeat_interval))`
ScanEnd ==
    /\ scan_pc = "scan"
    /\ todo = {}
    /\ scan_pc' = "sleep"
    /\ wake_at' = now + HeartbeatInterval
    /\ UNCHANGED << matcherVars, now, trackerVars, shard_of, chan, rx_open,
                    tx_open, loopVars, scan_now, todo, scan_cur, slackVars,
                    ev >>

\* A second passes.  The heartbeat thread is scheduled promptly: a scan takes
\* no time and a sleep ends when its interval has passed.
Tick ==
    /\ now < MaxTime
    /\ \/ scan_pc \in {"off", "deadlock"}
       \/ scan_pc = "sleep" /\ now < wake_at
    /\ now' = now + 1
    /\ UNCHANGED << matcherVars, trackerVars, shard_of, chan, rx_open, tx_open,
                    loopVars, scanVars, slackVars, ev >>

\* ------------------------------------------------------------- the notifier
Outcomes == {"success", "status", "error"}

\* Slack::send_alert: Ok(()) unless the HTTP client fails; a response with a
\* non-success status is logged and Ok(()) is returned.
send_alert_ok(empty, outcome) == empty \/ outcome # "error"

\* `self.repeats.insert(message.clone(), (1usize, Instant::now()))`
insert_repeat(map, msg, t) ==
    [m \in DOMAIN map \cup {msg} |->
        IF m = msg THEN [count |-> 1, at |-> t] ELSE map[m]]

\* `*count += 1usize`
count_repeat(map, msg) ==
    [map EXCEPT ![msg] = [count |-> @.count + 1, at |-> @.at]]

\* `self.repeats.get_mut(&message)` finds an entry.
is_repeat(map, msg) == msg \in DOMAIN map

\* `self.repeats.retain(|_, &mut (_, timestamp)| timestamp >= cutoff)` with
\* cutoff = Instant::now() - 3600 s
retain(map, t) ==
    [m \in {k \in DOMAIN map : map[k].at >= t - SuppressionWindow} |-> map[m]]

\* A receive that takes the newest message of the queue.
recv_newest(queue, head) == queue[Len(queue)]

\* `rx.recv_async().await` yields the oldest message not yet received.
recv_async(queue, head) == queue[head + 1]

\* A notifier that gives up at the first delivery that fails.
after_delivery_fatal(ok) == IF ok THEN "recv" ELSE "done"

\* After send_alert the loop goes round again: on Err by `continue`, on Ok by
\* reaching the end of its body.
after_delivery(ok) == "recv"

\* One iteration of `while let Ok(message) = rx.recv_async().await`, with the
\* outcome of the HTTP request if one is made.  The record logged for a
\* suppressed message carries the age of its suppression entry.
Recv(outcome) ==
    LET received == recv_async(chan, rx_head)
    IN  /\ slack_pc = "recv"
        /\ rx_head < Len(chan)
        /\ rx_head' = rx_head + 1
        /\ IF is_repeat(repeats, received)
           THEN /\ repeats' = count_repeat(repeats, received)
                /\ posts' = posts
                /\ slack_pc' = "recv"
                /\ ev' = [op |-> "recv", i |-> rx_head + 1, arm |-> "suppressed",
                          n |-> now - repeats[received].at]
           ELSE /\ posts' = IF url_empty THEN posts
                            ELSE Append(posts, [message |-> received,
                                                outcome |-> outcome])
                /\ repeats' = IF send_alert_ok(url_empty, outcome)
                              THEN insert_repeat(repeats, received, now)
                              ELSE repeats
                /\ slack_pc' = after_delivery(send_alert_ok(url_empty, outcome))
                /\ ev' = [op |-> "recv", i |-> rx_head + 1,
                          arm |-> IF url_empty THEN "logged" ELSE outcome,
                          n |-> 0]
        /\ UNCHANGED << matcherVars, now, trackerVars, shard_of, chan, rx_open,
                        tx_open, loopVars, scanVars, url_empty >>

\* rx.recv_async() fails: every Sender is gone and the queue is empty.  The
\* loop ends, the old suppression entries are removed and start returns.
RecvClosed ==
    /\ slack_pc = "recv"
    /\ ~tx_open
    /\ rx_head = Len(chan)
    /\ slack_pc' = "done"
    /\ repeats' = retain(repeats, now)
    /\ ev' = [op |-> "recv_closed", i |-> NoIdx, arm |-> "none", n |-> 0]
    /\ UNCHANGED << matcherVars, now, trackerVars, shard_of, chan, rx_head,
                    rx_open, tx_open, loopVars, scanVars, url_empty, posts >>

\* The messages the producers of the notifier's channel send.
SlackMessages ==
    { format_alert(AlertRules[1].prefix, <<"a", "b">>),
      format_alert(AlertRules[2].prefix, <<"a">>) }

\* A producer sends a message into the notifier's channel.
Enqueue(m) ==
    /\ slack_pc # "off"
    /\ tx_open
    /\ Len(chan) < MaxChan
    /\ chan' = send(chan, slack_pc = "recv", m)
    /\ UNCHANGED << matcherVars, now, trackerVars, shard_of, rx_open, tx_open,
                    loopVars, scanVars, slackVars, ev >>

\* The last Sender is dropped.
DropSenders ==
    /\ slack_pc # "off"
    /\ tx_open
    /\ tx_open' = FALSE
    /\ UNCHANGED << matcherVars, now, trackerVars, shard_of, chan, rx_open,
                    loopVars, scanVars, slackVars, ev >>

\* Slack::start has been called on a channel that other tasks send into.
InitSlack ==
    /\ InitIdle
    /\ loop_pc = "off"
    /\ scan_pc = "off"
    /\ slack_pc = "recv"
    /\ shard_of = [i \in HbIdx |-> "s0"]
    /\ url_empty \in BOOLEAN
    /\ m_patterns = << >>
    /\ m_line = << >>
    /\ m_result = None

\* ------------------------------------------------------ a stand-alone Matcher
Patterns == { <<"a">>, <<"b">>, <<"a", "b">>, <<"b", "c">> }

RuleLists == UNION {[1..n -> Patterns] : n \in 0..MaxRules}

Pending == [some |-> FALSE, i |-> NoIdx, line |-> <<"?">>]

InitMatcher ==
    /\ InitIdle
    /\ loop_pc = "off"
    /\ scan_pc = "off"
    /\ slack_pc = "off"
    /\ shard_of = [i \in HbIdx |-> "s0"]
    /\ url_empty = FALSE
    /\ m_patterns \in {Matcher_new(rules) : rules \in RuleLists}
    /\ m_line \in Lines
    /\ m_result = Pending

\* matcher.find_match(line)
Match ==
    /\ m_result = Pending
    /\ m_result' = find_match(m_patterns, m_line)
    /\ UNCHANGED << m_patterns, m_line, now, trackerVars, shard_of, chan,
                    rx_open, tx_open, loopVars, scanVars, slackVars, ev >>

\* ----------------------------------------------------------- specifications
\* The journal processor: the journal loop and the heartbeat thread, sending
\* into a channel whose receiver lives.
Next ==
    \/ \E line \in Lines : ReadLine(line)
    \/ ScanBegin
    \/ \E i \in HbIdx : ScanEntry(i)
    \/ ScanEnd
    \/ Tick

Spec == Init /\ [][Next]_vars

\* The journal processor when the journal can end and the receiver can go.
NextFault ==
    \/ Next
    \/ SourceEnd
    \/ RxDrop

SpecFault == Init /\ [][NextFault]_vars

\* The notifier, fed by its producers.
NextSlack ==
    \/ \E m \in SlackMessages : Enqueue(m)
    \/ DropSenders
    \/ \E outcome \in Outcomes : Recv(outcome)
    \/ RecvClosed
    \/ Tick

SpecSlack == InitSlack /\ [][NextSlack]_vars

\* A Matcher asked about one line.
SpecMatcher == InitMatcher /\ [][Match]_vars

\* ------------------------------------------------------------------ claims
\* The positions of the rules of a list whose pattern occurs in a line.
Hits(patterns, line) ==
    {k \in 1..Len(patterns) : is_match(patterns[k], line)}

\* The smallest position in a non-empty set of positions.
First(hits) == CHOOSE k \in hits : \A j \in hits : k <= j

Tolerance(i) == HeartbeatRules[i + 1].tolerance

\* The time between scan_now and the last_seen the heartbeat thread reads.
Elapsed(i) ==
    IF scan_now >= heartbeat_updates[i].last_seen
    THEN scan_now - heartbeat_updates[i].last_seen
    ELSE 0

\* The heartbeat thread runs the body of its loop for key i in this step.
ScanStep(i) ==
    /\ scan_pc = "scan"
    /\ i \in todo
    /\ \/ todo' = todo \ {i}
       \/ scan_pc' = "deadlock" /\ scan_cur' = i

IsMissedOf(m, i) == m.kind = "missed" /\ m.text = HeartbeatRules[i + 1].prefix

IsRecoveredOf(m, i) ==
    m.kind = "recovered" /\ m.pattern = HeartbeatRules[i + 1].pattern

IsNoteOf(m, i) == IsMissedOf(m, i) \/ IsRecoveredOf(m, i)

\* The heartbeat notifications sent for key i, in the order sent.
Notes(i) == SelectSeq(chan, LAMBDA m : IsNoteOf(m, i))

LastNoteKind(i) ==
    IF Notes(i) = << >> THEN "none" ELSE Notes(i)[Len(Notes(i))].kind

\* This step appends exactly one message to the channel.
SendsOne == Len(chan') = Len(chan) + 1 /\ SubSeq(chan', 1, Len(chan)) = chan

Sent == chan'[Len(chan')]

\* C1: find_match returns the smallest rule index whose pattern matches the
\* line, with the line unchanged, and returns None exactly when no rule
\* matches.
C1_FirstMatchWins ==
    m_result # Pending =>
        LET hits == Hits([k \in 1..Len(m_patterns) |-> m_patterns[k].re], m_line)
        IN  /\ (hits = {}) <=> ~m_result.some
            /\ hits # {} => /\ m_result.i = First(hits) - 1
                            /\ m_result.line = m_line

\* A line that two rules match has been answered with the earlier rule.
C1_Witness ==
    /\ m_result.some
    /\ \E k \in 1..Len(m_patterns) :
          /\ k > m_result.i + 1
          /\ is_match(m_patterns[k].re, m_line)

\* C2: every line the journal loop reads that matches an alert rule puts
\* exactly one message on the channel, the first matching rule's prefix
\* followed by the line; a line that matches no alert rule puts nothing on it.
C2_OneAlertPerLine ==
    [][lines_read' = lines_read + 1 =>
        LET hits == Hits([k \in 1..Len(AlertRules) |-> AlertRules[k].pattern],
                         message')
        IN  IF hits = {} THEN chan' = chan
            ELSE /\ SendsOne
                 /\ Sent.kind = "alert"
                 /\ Sent.text = AlertRules[First(hits)].prefix \o message']_vars

\* The line "ab", which both alert rules match, has been read and the one
\* alert it caused is the last message sent.
C2_Witness ==
    /\ lines_read > 0
    /\ message = <<"a", "b">>
    /\ Len(chan) > 0
    /\ chan[Len(chan)].kind = "alert"
    /\ chan[Len(chan)].text = <<"E", ":", "a", "b">>

\* C3: a scan that finds key i overdue sends one "missed" notification and
\* sets the miss count to 1 when the count is 0, and sends nothing and leaves
\* the count alone when the count is already positive.
C3_EdgeTriggered ==
    [][\A i \in HbIdx :
        ScanStep(i) /\ Elapsed(i) > Tolerance(i) =>
            IF heartbeat_misses[i].count = 0
            THEN /\ SendsOne
                 /\ IsMissedOf(Sent, i)
                 /\ heartbeat_misses'[i].count = 1
            ELSE /\ chan' = chan
                 /\ heartbeat_misses'[i] = heartbeat_misses[i]]_vars

\* A later scan has found a key still overdue after its one "missed"
\* notification and has sent nothing more for it.
C3_Witness ==
    /\ ev.op = "scan_entry"
    /\ ev.arm = "quiet"
    /\ ev.n > Tolerance(ev.i)
    /\ heartbeat_misses[ev.i].count = 1
    /\ Len(Notes(ev.i)) = 1
    /\ LastNoteKind(ev.i) = "missed"

\* C4: a key that has recovered and then gone overdue again gets a new
\* "missed" notification at the next scan: a key whose last notification
\* is "recovered" is never overdue for more than one scan interval.
C4_MissedAgainAfterRecovery ==
    \A i \in HbIdx :
        LastNoteKind(i) = "recovered" =>
            now - heartbeat_updates[i].last_seen <= Tolerance(i) + HeartbeatInterval

\* C5: after the scan that sends "recovered" for a key, the key has no miss
\* count and the heartbeat thread goes on scanning.
C5_RecoveryClearsAndContinues ==
    \A i \in HbIdx :
        LastNoteKind(i) = "recovered" =>
            /\ heartbeat_misses[i].count = 0
            /\ scan_pc # "deadlock"

\* C6: a scan that finds key i exactly at its tolerance sends no "missed"
\* notification and leaves a miss count of 0 at 0; a "missed" notification
\* is sent only by a scan that finds the key beyond its tolerance.
C6_StrictOverdue ==
    [][\A i \in HbIdx :
        ScanStep(i) =>
            /\ Elapsed(i) = Tolerance(i) =>
                  /\ ~(SendsOne /\ IsMissedOf(Sent, i))
                  /\ heartbeat_misses[i].count = 0 =>
                        chan' = chan /\ heartbeat_misses'[i].count = 0
            /\ SendsOne /\ IsMissedOf(Sent, i) => Elapsed(i) > Tolerance(i)]_vars

\* A scan has found a key exactly at its tolerance and has left it healthy.
C6_Witness ==
    /\ ev.op = "scan_entry"
    /\ ev.n = Tolerance(ev.i)
    /\ ev.arm = "quiet"
    /\ heartbeat_misses[ev.i].count = 0
    /\ Notes(ev.i) = << >>

\* C7 as stated: every "recovered" notification reports a duration at least
\* as long as the silence that caused the miss, which exceeds the tolerance.
C7_RecoveredReportsSilence ==
    \A i \in HbIdx : \A k \in 1..Len(chan) :
        IsRecoveredOf(chan[k], i) => chan[k].secs >= Tolerance(i) + 1

\* C7 amended: the notifications of a key alternate, "missed" first; the scan
\* that sends "missed" records its own time as missed_at, and the scan that
\* sends "recovered" reports the time from missed_at to itself.
C7_RecoveredReportsSinceMissed ==
    /\ [](\A i \in HbIdx : \A k \in 1..Len(Notes(i)) :
            Notes(i)[k].kind = IF k % 2 = 1 THEN "missed" ELSE "recovered")
    /\ [][\A i \in HbIdx :
            ScanStep(i) /\ SendsOne =>
                /\ IsMissedOf(Sent, i) => heartbeat_misses'[i].missed_at = now
                /\ ~IsMissedOf(Sent, i) =>
                      /\ IsRecoveredOf(Sent, i)
                      /\ Sent.secs = now - heartbeat_misses[i].missed_at]_vars

\* A key has been missed and has recovered, and the duration reported is
\* shorter than the silence that caused the miss.
C7_Witness ==
    \E i \in HbIdx :
        /\ Len(Notes(i)) = 2
        /\ LastNoteKind(i) = "recovered"
        /\ Notes(i)[2].secs <= Tolerance(i)

\* The messages equal to m that the notifier has counted and not delivered.
Suppressed(m) == IF m \in DOMAIN repeats THEN repeats[m].count - 1 ELSE 0

\* C8: when the notifier, with a webhook configured, has received N >= 1
\* messages, all with the same text and all within the suppression window,
\* it has called the webhook once and suppressed N - 1 messages.
C8_OneCallForRepeats ==
    ( /\ ~url_empty
      /\ slack_pc = "recv"
      /\ Len(chan) >= 1
      /\ rx_head = Len(chan)
      /\ \A k \in 1..Len(chan) : chan[k] = chan[1]
      /\ now <= SuppressionWindow )
    => /\ Len(posts) = 1
       /\ Suppressed(chan[1]) = Len(chan) - 1

\* C9: the running notifier suppresses a message only when the suppression
\* entry of its text is, at that moment, no older than the suppression window.
C9_ExpiredIsDelivered ==
    ev.op = "recv" /\ ev.arm = "suppressed" => ev.n <= SuppressionWindow

\* C10: after a delivery that failed, by an HTTP client error or by a
\* non-success status, the message has its suppression entry.
C10_FailedDeliveryCounts ==
    ev.op = "recv" /\ ev.arm \in {"error", "status"} =>
        chan[ev.i] \in DOMAIN repeats

\* C11: the notifier makes at most one webhook call for a message it
\* receives, whatever the outcome of the call, and stays in its receive loop
\* after it: it ends only when the channel is closed and every message sent
\* has been received.
C11_FailureIsNotFatal ==
    /\ [](slack_pc = "done" => ~tx_open /\ rx_head = Len(chan))
    /\ [][IF rx_head' = rx_head THEN posts' = posts
          ELSE /\ rx_head' = rx_head + 1
               /\ slack_pc' = "recv"
               /\ \/ posts' = posts
                  \/ /\ Len(posts') = Len(posts) + 1
                     /\ SubSeq(posts', 1, Len(posts)) = posts
                     /\ posts'[Len(posts')].message = chan[rx_head']]_vars

\* The first delivery failed with a client error, and the notifier has gone
\* on to receive and deliver the next, different message.
C11_Witness ==
    /\ slack_pc = "recv"
    /\ rx_head = 2
    /\ chan[1] # chan[2]
    /\ Len(posts) = 2
    /\ posts[1] = [message |-> chan[1], outcome |-> "error"]
    /\ posts[2].message = chan[2]

\* C12: the journal loop never returns success: when it has ended, it has
\* ended with an error.
C12_SourceEndIsFailure ==
    loop_pc \notin {"read", "blocked"} => loop_pc = "err"

\* The alert rules whose pattern occurs in a line.
AlertHits(line) ==
    Hits([k \in 1..Len(AlertRules) |-> AlertRules[k].pattern], line)

\* C13: when the journal loop reads a line that matches an alert rule and the
\* receiver of the channel is gone, the loop ends with an error at that line,
\* without the heartbeat update of that line; once it has ended with an error
\* it reads no further line and updates no heartbeat.
C13_ClosedChannelIsFatal ==
    [][/\ lines_read' = lines_read + 1 /\ AlertHits(message') # {} /\ ~rx_open
          => /\ loop_pc' = "err"
             /\ heartbeat_updates' = heartbeat_updates
       /\ loop_pc = "err"
          => /\ loop_pc' = "err"
             /\ lines_read' = lines_read
             /\ message' = message
             /\ heartbeat_updates' = heartbeat_updates]_vars

\* The first line read, "ab", matched an alert rule after the receiver had
\* gone: the loop has ended with an error, with lines left to read, and the
\* heartbeat rule that "ab" matches has not been touched.
C13_Witness ==
    /\ loop_pc = "err"
    /\ ~rx_open
    /\ lines_read = 1
    /\ message = <<"a", "b">>
    /\ chan = << >>
    /\ heartbeat_updates = new_heartbeat_updates(0)

\* C14: neither the journal loop nor the heartbeat thread ever waits for a
\* map lock that is never released.
C14_NoLockWaitsForever ==
    /\ loop_pc # "blocked"
    /\ scan_pc # "deadlock"

\* C15: the channel keeps the messages in the order they were sent, and the
\* notifier takes them one at a time in that order: each receive step handles
\* exactly the next message of the channel, which it either counts as a
\* repeat or hands to send_alert, and touches the suppression entry of no
\* other message.
C15_ArrivalOrder ==
    [][/\ Len(chan') \in {Len(chan), Len(chan) + 1}
       /\ SubSeq(chan', 1, Len(chan)) = chan
       /\ rx_head' # rx_head =>
             LET m == chan[rx_head + 1]
             IN  /\ rx_head' = rx_head + 1
                 /\ ev'.i = rx_head + 1
                 /\ \A k \in DOMAIN repeats \ {m} :
                       k \in DOMAIN repeats' /\ repeats'[k] = repeats[k]
                 /\ DOMAIN repeats' \subseteq DOMAIN repeats \cup {m}
                 /\ IF m \in DOMAIN repeats
                    THEN /\ repeats'[m].count = repeats[m].count + 1
                         /\ posts' = posts
                    ELSE \/ url_empty /\ posts' = posts
                         \/ /\ ~url_empty
                            /\ Len(posts') = Len(posts) + 1
                            /\ SubSeq(posts', 1, Len(posts)) = posts
                            /\ posts'[Len(posts')].message = m]_vars

\* Three messages are in the channel, the second unlike the first; the
\* notifier has delivered the first one and nothing else.
C15_Witness ==
    /\ Len(chan) = 3
    /\ chan[1] # chan[2]
    /\ rx_head = 1
    /\ Len(posts) = 1
    /\ posts[1].message = chan[1]
    /\ DOMAIN repeats = {chan[1]}

\* The heartbeat rules whose pattern occurs in a line.
HeartbeatHits(line) ==
    Hits([k \in 1..Len(HeartbeatRules) |-> HeartbeatRules[k].pattern], line)

\* The journal loop has handled a whole line in this step.
LineHandled == lines_read' = lines_read + 1 /\ loop_pc' = "read"

\* C16: a line the journal loop handles that matches a heartbeat rule changes
\* the entry of the first matching rule and no other, and leaves there the
\* time of the touch and the rule's prefix followed by the line.
C16_TouchStoresPrefixedText ==
    [][LineHandled /\ HeartbeatHits(message') # {} =>
        LET i == First(HeartbeatHits(message')) - 1
        IN  /\ \A j \in HbIdx \ {i} :
                  heartbeat_updates'[j] = heartbeat_updates[j]
            /\ heartbeat_updates'[i].last_seen = now
            /\ heartbeat_updates'[i].msg =
                  HeartbeatRules[i + 1].prefix \o message']_vars

\* C17: a line the journal loop reads changes no miss record and changes at
\* most the entry of the heartbeat rule it is matched to, whose time and
\* message it overwrites whatever they were; the miss records are changed
\* only by the heartbeat thread, one key at a time, in the body of its loop
\* for that key.
C17_TouchFrame ==
    [][/\ lines_read' = lines_read + 1 =>
             /\ heartbeat_misses' = heartbeat_misses
             /\ \A j \in HbIdx :
                   heartbeat_updates'[j] # heartbeat_updates[j] =>
                       /\ HeartbeatHits(message') # {}
                       /\ j = First(HeartbeatHits(message')) - 1
       /\ LineHandled /\ HeartbeatHits(message') # {} =>
             heartbeat_updates'[First(HeartbeatHits(message')) - 1] =
                 [last_seen |-> now, msg |-> message']
       /\ heartbeat_misses' # heartbeat_misses =>
             \E i \in HbIdx :
                 /\ ScanStep(i)
                 /\ \A j \in HbIdx \ {i} :
                       heartbeat_misses'[j] = heartbeat_misses[j]]_vars

\* The journal loop has just touched key 1, whose miss is recorded, with the
\* line "ab": the entry is overwritten, the miss record and the entry of key
\* 0 are as they were.
C17_Witness ==
    /\ message = <<"a", "b">>
    /\ now > 0
    /\ heartbeat_updates[1] = [last_seen |-> now, msg |-> <<"a", "b">>]
    /\ heartbeat_updates[0] = new_heartbeat_updates(0)[0]
    /\ heartbeat_misses[1].count = 1
    /\ heartbeat_misses[1].missed_at < now

\* C18: the scans keep coming: a scan is never older than the interval the
\* heartbeat thread sleeps between two scans, and when the thread sleeps the
\* scan before has visited every key.
C18_ScansKeepComing ==
    /\ now - scan_now <= HeartbeatInterval
    /\ scan_pc = "sleep" => todo = {}

\* C19: when the heartbeat thread has a notification to send for key i and
\* the receiver of the channel is gone, it leaves the miss record of i as it
\* was and does not go on scanning.
C19_ScannerStopsOnClosedChannel ==
    [][\A i \in HbIdx :
        ScanStep(i) /\ ~rx_open /\ ev'.arm \in {"missed", "recovered"} =>
            /\ heartbeat_misses'[i].count = heartbeat_misses[i].count
            /\ scan_pc' # "scan"]_vars

\* C20: a "missed" notification that the scan of key i sends carries the
\* prefix and the pattern of heartbeat rule i.
C20_MissedNamesThePattern ==
    [][\A i \in HbIdx :
        ScanStep(i) /\ SendsOne /\ Sent.kind = "missed" =>
            /\ Sent.text = HeartbeatRules[i + 1].prefix
            /\ Sent.pattern = HeartbeatRules[i + 1].pattern]_vars

\* C21: the miss count of every key is 0 or 1 and changes only from 0 to 1;
\* the scan of key i sends "recovered" only for key i, only when the count
\* of i is 1 and only when the last notification sent for i is "missed".
C21_CountIsAGate ==
    /\ [](\A i \in HbIdx : heartbeat_misses[i].count \in {0, 1})
    /\ [][\A i \in HbIdx :
            /\ heartbeat_misses'[i].count # heartbeat_misses[i].count =>
                  /\ heartbeat_misses[i].count = 0
                  /\ heartbeat_misses'[i].count = 1
            /\ ScanStep(i) /\ SendsOne /\ Sent.kind = "recovered" =>
                  /\ IsRecoveredOf(Sent, i)
                  /\ heartbeat_misses[i].count = 1
                  /\ LastNoteKind(i) = "missed"]_vars

\* The heartbeat thread has just sent "recovered" for a key whose count is
\* 1, as the second notification of that key, while the other key is missed.
C21_Witness ==
    \E i \in HbIdx :
        /\ ev.op = "scan_entry"
        /\ ev.arm = "recovered"
        /\ ev.i = i
        /\ heartbeat_misses[i].count = 1
        /\ Len(Notes(i)) = 2
        /\ chan[Len(chan)].kind = "recovered"
        /\ \E j \in HbIdx \ {i} : heartbeat_misses[j].count = 1

====
